---- MODULE Spec2Model ----
(***************************************************************************)
(* Model of the REDMANE FastAPI routes (app/api/routes.py) and of the      *)
(* request schemas they read (app/schemas/schemas.py).                     *)
(*                                                                         *)
(* Five parts, each with its own specification over the same variables:    *)
(*   SpecAsm    the row-to-tree loop of get_patients_metadata              *)
(*   SpecQuery  the filter composition of get_datasets / get_patients      *)
(*   SpecUpsert update_metadata (size_update) run by concurrent clients    *)
(*   SpecRaw    add_raw_files run by concurrent clients                    *)
(*   SpecDataset get_dataset_with_metadata, one request after another      *)
(***************************************************************************)
EXTENDS Integers, Sequences, FiniteSets, TLC

(***************************************************************************)
(* Bounds                                                                  *)
(***************************************************************************)
MaxRows == 4
MaxParent == 2
MaxId == 3
NClients == 2
MaxDataset == 1
MaxRequests == 2
SerialRequests == 4
MaxFiles == 2
MaxMeta == 1
MaxRawRequests == 2
MaxProject == 2

(***************************************************************************)
(* Python values                                                           *)
(***************************************************************************)
\* Python None in an integer column (ids are never negative)
None == -1
\* Python None in a text column
NoneStr == "None"
\* truth value of an integer-or-None column, as tested by `if row[5]:`
Truthy(x) == x /= None /\ x /= 0

VARIABLES
    \* ---- get_patients_metadata: the parent loop -------------------------
    rows,             \* cursor.fetchall(): the joined rows, ORDER BY p.id
    row_i,            \* index of the next row the for loop reads
    current_patient,  \* the accumulator, NoPatient while it is None
    patients,         \* the output list
    asm_pc,           \* "off" | "loop" | "done"
    \* ---- get_datasets / get_patients: filter composition ----------------
    q_fn,             \* the handler: "get_datasets" | "get_patients" | "off"
    project_id,       \* query parameter, None when not supplied
    dataset_id,       \* query parameter, None when not supplied
    query,            \* the query text, as the sequence of its clauses
    params,           \* the bound parameter list
    q_pc,             \* "start" | "project_id" | "dataset_id" | "group_by" | "execute" | "executed"
    \* ---- update_metadata (PUT /datasets_metadata/size_update) -----------
    datasets_metadata, \* the committed rows of table datasets_metadata
    dm_next_id,       \* the id sequence of the table
    update,           \* per client: the request object of the running request
    record,           \* per client: the id cursor.fetchone() returned, or None
    u_tx,             \* per client: the uncommitted writes of its connection
    u_conn,           \* per client: "none" | "open" | "closed"
    u_pc,             \* per client: the statement the handler is at
    u_reqs,           \* number of requests started so far
    u_limit,          \* number of requests the clients send in this run
    u_observe,        \* whether this run records which requests ran alone
    isolated,         \* per client: no other request has run during this one
    serial,           \* the last (at most two) requests that ran alone, back to back
    \* ---- add_raw_files (POST /add_raw_files/) ---------------------------
    raw_files,          \* the committed rows of table raw_files
    raw_files_metadata, \* the committed rows of table raw_files_metadata
    rf_next_id,       \* the id sequence of raw_files
    rfm_next_id,      \* the id sequence of raw_files_metadata
    r_files,          \* per client: the raw_files list of the running request
    r_i,              \* per client: index of the raw_file the outer loop is at
    r_j,              \* per client: index of the metadata the inner loop is at
    raw_file_id,      \* per client: the id RETURNING gave for the current file
    r_tx,             \* per client: the uncommitted inserts of its connection
    r_conn,           \* per client: "none" | "open" | "closed"
    r_pc,             \* per client: the statement the handler is at
    r_req,            \* per client: the number of its running request
    r_log,            \* per request: its input and its outcome
    \* ---- get_dataset_with_metadata (GET /datasets_with_metadata/{id}) ----
    datasets,         \* the rows of table datasets
    g_dataset_id,     \* path parameter dataset_id
    g_project_id,     \* query parameter project_id
    dataset_row,      \* what cursor.fetchone() returned, NoRow when None
    g_conn,           \* "none" | "open" | "closed"
    g_raised,         \* the exception raised inside the try block, NoException if none
    g_response,       \* the HTTP response of the request, NoResponse while it runs
    g_pc              \* "off" | "idle" | "connect" | "select_dataset" | "select_metadata" | "done"

asm_vars == <<rows, row_i, current_patient, patients, asm_pc>>
q_vars == <<q_fn, project_id, dataset_id, query, params, q_pc>>
u_vars == <<datasets_metadata, dm_next_id, update, record, u_tx, u_conn, u_pc,
            u_reqs, u_limit, u_observe, isolated, serial>>
r_vars == <<raw_files, raw_files_metadata, rf_next_id, rfm_next_id, r_files, r_i, r_j,
            raw_file_id, r_tx, r_conn, r_pc, r_req, r_log>>
g_vars == <<datasets, g_dataset_id, g_project_id, dataset_row, g_conn, g_raised,
            g_response, g_pc>>
vars == <<asm_vars, q_vars, u_vars, r_vars, g_vars>>

(***************************************************************************)
(* Tree assembler: get_patients_metadata, routes.py 134-161                *)
(***************************************************************************)
\* child ids a joined row can carry; 0 is a non-null id that is falsy
ChildIds == {0, 101, 202}
\* the pm.id, pm.key, pm.value columns of a row that has metadata
MetaCols == {<<0, "k1", "v1">>, <<101, "k1", "v1">>, <<101, "k2", "v2">>, <<202, "k1", "v1">>}
\* the parent columns are those of the one patients row with that id
ParentName(p) == IF p = 1 THEN "A" ELSE IF p = 2 THEN "B" ELSE "C"

Row(p, c, k, v) == [pid |-> p, name |-> ParentName(p), cid |-> c, key |-> k, value |-> v]

\* rows of patients LEFT JOIN patients_metadata: a patient without
\* metadata yields one row whose pm columns are all null
JoinedRows ==
    {Row(p, None, NoneStr, NoneStr) : p \in 1..MaxParent}
    \cup {Row(p, m[1], m[2], m[3]) : p \in 1..MaxParent, m \in MetaCols}

SortedByParent(s) == \A i \in 1..(Len(s) - 1) : s[i].pid <= s[i + 1].pid

RowSeqs == UNION {[1..n -> JoinedRows] : n \in 0..MaxRows}

NoPatient == [isNone |-> TRUE]

\* line 139: not current_patient or current_patient['id'] != row[0]
StartsNewPatientEveryRow(cur, row) == TRUE
StartsNewPatient(cur, row) == cur = NoPatient \/ cur.id /= row.pid

\* lines 142-150
NewPatient(row) ==
    [isNone |-> FALSE, id |-> row.pid, ext_patient_id |-> row.name, metadata |-> <<>>]

\* lines 140-141 and 160-161: if current_patient: patients.append(...)
SealDropped(cur, out) == out
Seal(cur, out) == IF cur = NoPatient THEN out ELSE Append(out, cur)

\* lines 152-158
AppendMetadataDedup(cur, row) ==
    IF Truthy(row.cid)
       /\ (cur.metadata = <<>> \/ cur.metadata[Len(cur.metadata)].id /= row.cid)
    THEN [cur EXCEPT !.metadata =
            Append(@, [id |-> row.cid, patient_id |-> row.pid,
                       key |-> row.key, value |-> row.value])]
    ELSE cur
AppendMetadataNullEntry(cur, row) ==
    [cur EXCEPT !.metadata =
        Append(@, [id |-> row.cid, patient_id |-> row.pid,
                   key |-> row.key, value |-> row.value])]
AppendMetadata(cur, row) ==
    IF Truthy(row.cid)
    THEN [cur EXCEPT !.metadata =
            Append(@, [id |-> row.cid, patient_id |-> row.pid,
                       key |-> row.key, value |-> row.value])]
    ELSE cur

(***************************************************************************)
(* Filter composition: get_datasets 368-379, get_patients 303-317          *)
(***************************************************************************)
\* the text of a query is kept as the sequence of the clauses appended to it
DatasetsBase == <<"SELECT id, project_id, name FROM datasets", "WHERE", "1=1">>
PatientsBase ==
    <<"SELECT p.id, p.project_id, p.ext_patient_id, p.ext_patient_url, p.public_patient_id, COUNT(s.id) AS sample_count FROM patients p LEFT JOIN samples s ON p.id = s.patient_id">>

\* the clauses that hold a %s placeholder
PlaceholderClauses == {"project_id = %s", "id = %s", "p.project_id = %s"}

\* `if project_id is not None:` (lines 311, 371, 375)
IsNotNoneAsTruthy(x) == Truthy(x)
IsNotNone(x) == x /= None

FilterValues == {None} \cup 0..MaxId

QueryOff ==
    /\ q_fn = "off"
    /\ project_id = None
    /\ dataset_id = None
    /\ query = <<>>
    /\ params = <<>>
    /\ q_pc = "off"

InitQuery ==
    /\ q_fn \in {"get_datasets", "get_patients"}
    /\ project_id \in FilterValues
    /\ dataset_id \in (IF q_fn = "get_datasets" THEN FilterValues ELSE {None})
    /\ query = <<>>
    /\ params = <<>>
    /\ q_pc = "start"

\* get_datasets lines 368-369
GetDatasetsBase ==
    /\ q_fn = "get_datasets" /\ q_pc = "start"
    /\ query' = DatasetsBase
    /\ params' = <<>>
    /\ q_pc' = "project_id"
    /\ UNCHANGED <<q_fn, project_id, dataset_id, asm_vars, u_vars, r_vars, g_vars>>

\* get_datasets lines 371-373
GetDatasetsProjectFilter ==
    /\ q_fn = "get_datasets" /\ q_pc = "project_id"
    /\ IF IsNotNone(project_id)
       THEN /\ query' = query \o <<"AND", "project_id = %s">>
            /\ params' = Append(params, project_id)
       ELSE UNCHANGED <<query, params>>
    /\ q_pc' = "dataset_id"
    /\ UNCHANGED <<q_fn, project_id, dataset_id, asm_vars, u_vars, r_vars, g_vars>>

\* get_datasets lines 375-377
GetDatasetsDatasetFilter ==
    /\ q_fn = "get_datasets" /\ q_pc = "dataset_id"
    /\ IF IsNotNone(dataset_id)
       THEN /\ query' = query \o <<"AND", "id = %s">>
            /\ params' = Append(params, dataset_id)
       ELSE UNCHANGED <<query, params>>
    /\ q_pc' = "execute"
    /\ UNCHANGED <<q_fn, project_id, dataset_id, asm_vars, u_vars, r_vars, g_vars>>

\* get_patients lines 303-309
GetPatientsBase ==
    /\ q_fn = "get_patients" /\ q_pc = "start"
    /\ query' = PatientsBase
    /\ params' = <<>>
    /\ q_pc' = "project_id"
    /\ UNCHANGED <<q_fn, project_id, dataset_id, asm_vars, u_vars, r_vars, g_vars>>

\* get_patients lines 311-313
GetPatientsProjectFilter ==
    /\ q_fn = "get_patients" /\ q_pc = "project_id"
    /\ IF IsNotNone(project_id)
       THEN /\ query' = query \o <<"WHERE", "p.project_id = %s">>
            /\ params' = Append(params, project_id)
       ELSE UNCHANGED <<query, params>>
    /\ q_pc' = "group_by"
    /\ UNCHANGED <<q_fn, project_id, dataset_id, asm_vars, u_vars, r_vars, g_vars>>

\* get_patients line 315
GetPatientsGroupBy ==
    /\ q_fn = "get_patients" /\ q_pc = "group_by"
    /\ query' = query \o <<"GROUP BY p.id", "ORDER BY p.id">>
    /\ q_pc' = "execute"
    /\ UNCHANGED <<q_fn, project_id, dataset_id, params, asm_vars, u_vars, r_vars, g_vars>>

\* cursor.execute(query, params) (lines 317, 379)
ExecuteQuery ==
    /\ q_pc = "execute"
    /\ q_pc' = "executed"
    /\ UNCHANGED <<q_fn, project_id, dataset_id, query, params, asm_vars, u_vars, r_vars, g_vars>>

NextQuery ==
    \/ GetDatasetsBase
    \/ GetDatasetsProjectFilter
    \/ GetDatasetsDatasetFilter
    \/ GetPatientsBase
    \/ GetPatientsProjectFilter
    \/ GetPatientsGroupBy
    \/ ExecuteQuery

(***************************************************************************)
(* update_metadata, routes.py 495-574, with MetadataUpdate, schemas.py 33  *)
(***************************************************************************)
Clients == 1..NClients
Datasets == 1..MaxDataset

\* get_connection, lines 37-47: psycopg2.connect opens the connection with
\* autocommit off, so statements stay uncommitted until conn.commit()
autocommitOn == TRUE
autocommit == FALSE

SizeKey == "raw_file_extension_size_of_all_files"
LastKey == "last_size_update"
Keys == {SizeKey, LastKey}

SizeValues == {NoneStr, "s1"}
LastValues == {NoneStr, "t1", "t2"}

\* a request object as pydantic builds it from the declared schema; it has
\* no attribute raw_file_size, so line 508 raises AttributeError on it
MetadataUpdate ==
    [dataset_id : Datasets, file_size : SizeValues, last_size_update : LastValues]
\* a request object that carries the attributes the handler reads
\* (update.dataset_id, update.raw_file_size, update.last_size_update): the
\* only objects with which control gets past line 508 and reaches the two
\* upserts. routes.py imports names (RawFileCreate, RawFileResponse, ...)
\* that schemas.py does not define, so the handler is written against
\* another revision of the schemas; both kinds of object are inputs here.
HandlerUpdate ==
    [dataset_id : Datasets, raw_file_size : SizeValues, last_size_update : LastValues]

NoUpdate == [none |-> TRUE]
NoTx == [ins |-> {}, upd |-> {}]

\* attribute lookup on the request object: a missing name raises AttributeError
HasAttr(obj, name) == name \in DOMAIN obj
\* truth value of an Optional[str] attribute (`if update.last_size_update:`)
TruthyStr(x) == x /= NoneStr /\ x /= ""

\* what a connection sees: the committed rows with its own uncommitted
\* updates applied, and its own uncommitted inserts (READ COMMITTED)
Apply(table, tx) ==
    {IF \E w \in tx.upd : w[1] = r.id
     THEN [r EXCEPT !.value = (CHOOSE w \in tx.upd : w[1] = r.id)[2]]
     ELSE r : r \in table} \cup tx.ins
View(c) == Apply(datasets_metadata, u_tx[c])

\* SELECT id, value FROM datasets_metadata WHERE key = k AND dataset_id = d
MatchingAnyKey(table, d, k) == {r \in table : r.dataset_id = d}
Matching(table, d, k) == {r \in table : r.key = k /\ r.dataset_id = d}

\* cursor.fetchone(): one of the selected rows (the query has no ORDER BY),
\* None when there is none
FetchOne(sel) == IF sel = {} THEN {None} ELSE {r.id : r \in sel}

\* the statement that follows the first upsert: line 539 onwards
AfterSize(u) == IF TruthyStr(u.last_size_update) THEN "select_last" ELSE "commit"
\* lines 508 onwards, for an object u that has been received
AfterConnect(u) ==
    IF ~HasAttr(u, "raw_file_size") THEN "attribute_error"
    ELSE IF TruthyStr(u.raw_file_size) THEN "select_size"
    ELSE AfterSize(u)

Ended(pcv) == pcv \in {"idle", "returned", "attribute_error", "http_500"}
Alone(c) == \A o \in Clients \ {c} : Ended(u_pc[o])

UpsertOff ==
    /\ datasets_metadata = {}
    /\ dm_next_id = 1
    /\ update = [c \in Clients |-> NoUpdate]
    /\ record = [c \in Clients |-> None]
    /\ u_tx = [c \in Clients |-> NoTx]
    /\ u_conn = [c \in Clients |-> "none"]
    /\ u_pc = [c \in Clients |-> "idle"]
    /\ u_reqs = 0
    /\ u_limit = 0
    /\ u_observe = FALSE
    /\ isolated = [c \in Clients |-> FALSE]
    /\ serial = <<>>


\* an empty table (every row the model holds is written by update_metadata)
\* and n requests to send; o tells whether the run records in `serial`
\* the requests that ran with no other request in progress
StartUpsert(n, o) ==
    /\ datasets_metadata = {}
    /\ dm_next_id = 1
    /\ update = [c \in Clients |-> NoUpdate]
    /\ record = [c \in Clients |-> None]
    /\ u_tx = [c \in Clients |-> NoTx]
    /\ u_conn = [c \in Clients |-> "none"]
    /\ u_pc = [c \in Clients |-> "idle"]
    /\ u_reqs = 0
    /\ u_limit = n
    /\ u_observe = o
    /\ isolated = [c \in Clients |-> FALSE]
    /\ serial = <<>>

\* lines 503-508: a request arrives, the handler connects and reads
\* update.raw_file_size
Begin(c) ==
    /\ Ended(u_pc[c])
    /\ u_reqs < u_limit
    /\ \E u \in MetadataUpdate \cup HandlerUpdate :
          /\ update' = [update EXCEPT ![c] = u]
          /\ u_pc' = [u_pc EXCEPT ![c] = AfterConnect(u)]
          /\ serial' = IF Alone(c) /\ AfterConnect(u) /= "attribute_error"
                       THEN serial ELSE <<>>
    /\ u_conn' = [u_conn EXCEPT ![c] = "open"]
    /\ u_tx' = [u_tx EXCEPT ![c] = NoTx]
    /\ record' = [record EXCEPT ![c] = None]
    /\ u_reqs' = u_reqs + 1
    /\ isolated' = [o \in Clients |-> IF o = c THEN u_observe /\ Alone(c) ELSE FALSE]
    /\ UNCHANGED <<datasets_metadata, dm_next_id, u_limit, u_observe, asm_vars, q_vars, r_vars, g_vars>>

\* lines 509-518 (key SizeKey) and 540-549 (key LastKey)
Select(c, k, at, next) ==
    /\ u_pc[c] = at
    /\ \E r \in FetchOne(Matching(View(c), update[c].dataset_id, k)) :
          record' = [record EXCEPT ![c] = r]
    /\ u_pc' = [u_pc EXCEPT ![c] = next]
    /\ UNCHANGED <<datasets_metadata, dm_next_id, update, u_tx, u_conn, u_reqs,
                   u_limit, u_observe, isolated, serial, asm_vars, q_vars, r_vars, g_vars>>

SelectSize(c) == Select(c, SizeKey, "select_size", "write_size")
SelectLast(c) == Select(c, LastKey, "select_last", "write_last")

\* lines 519-536 and 550-567: UPDATE ... WHERE id = record_id when a row was
\* found, else INSERT; an UPDATE waits while another open transaction holds
\* an uncommitted update of the same row
Write(c, k, v, at, next) ==
    /\ u_pc[c] = at
    /\ record[c] /= None
          => \A o \in Clients \ {c} : \A w \in u_tx[o].upd : w[1] /= record[c]
    /\ LET tx == IF record[c] /= None
                 THEN [u_tx[c] EXCEPT !.upd =
                          {w \in @ : w[1] /= record[c]} \cup {<<record[c], v>>}]
                 ELSE [u_tx[c] EXCEPT !.ins = @ \cup
                          {[id |-> dm_next_id, dataset_id |-> update[c].dataset_id,
                            key |-> k, value |-> v]}]
       IN IF autocommit
          THEN /\ datasets_metadata' = Apply(datasets_metadata, tx)
               /\ u_tx' = [u_tx EXCEPT ![c] = NoTx]
          ELSE /\ u_tx' = [u_tx EXCEPT ![c] = tx]
               /\ UNCHANGED datasets_metadata
    /\ dm_next_id' = IF record[c] /= None THEN dm_next_id ELSE dm_next_id + 1
    /\ u_pc' = [u_pc EXCEPT ![c] = next]
    /\ UNCHANGED <<update, record, u_conn, u_reqs,
                   u_limit, u_observe, isolated, serial, asm_vars, q_vars, r_vars, g_vars>>

WriteSize(c) ==
    /\ u_pc[c] = "write_size"
    /\ Write(c, SizeKey, update[c].raw_file_size, "write_size", AfterSize(update[c]))
WriteLast(c) ==
    /\ u_pc[c] = "write_last"
    /\ Write(c, LastKey, update[c].last_size_update, "write_last", "commit")

SerialEntry(u) ==
    [dataset_id |-> u.dataset_id,
     size |-> u.raw_file_size,
     last |-> u.last_size_update]
LastTwo(s) == IF Len(s) > 2 THEN SubSeq(s, Len(s) - 1, Len(s)) ELSE s

\* lines 569-571: conn.commit(); conn.close(); return update
Commit(c) ==
    /\ u_pc[c] = "commit"
    /\ datasets_metadata' = Apply(datasets_metadata, u_tx[c])
    /\ u_tx' = [u_tx EXCEPT ![c] = NoTx]
    /\ u_conn' = [u_conn EXCEPT ![c] = "closed"]
    /\ u_pc' = [u_pc EXCEPT ![c] = "returned"]
    /\ serial' = IF isolated[c] THEN LastTwo(Append(serial, SerialEntry(update[c])))
                 ELSE <<>>
    /\ update' = [update EXCEPT ![c] = NoUpdate]
    /\ record' = [record EXCEPT ![c] = None]
    /\ UNCHANGED <<dm_next_id, u_reqs, u_limit, u_observe, isolated, asm_vars, q_vars, r_vars, g_vars>>

\* lines 573-574: a statement or the commit raises psycopg2.Error; the
\* handler answers 500 without commit or close, and the uncommitted writes
\* are rolled back when the connection is dropped
StoreError(c) ==
    /\ u_pc[c] \in {"select_size", "write_size", "select_last", "write_last", "commit"}
    /\ u_tx' = [u_tx EXCEPT ![c] = NoTx]
    /\ u_pc' = [u_pc EXCEPT ![c] = "http_500"]
    /\ serial' = <<>>
    /\ update' = [update EXCEPT ![c] = NoUpdate]
    /\ record' = [record EXCEPT ![c] = None]
    /\ UNCHANGED <<datasets_metadata, dm_next_id, u_conn, u_reqs, u_limit,
                   u_observe, isolated, asm_vars, q_vars, r_vars, g_vars>>

NextUpsert ==
    \/ \E c \in Clients : Begin(c)
    \/ \E c \in Clients : SelectSize(c)
    \/ \E c \in Clients : WriteSize(c)
    \/ \E c \in Clients : SelectLast(c)
    \/ \E c \in Clients : WriteLast(c)
    \/ \E c \in Clients : Commit(c)
    \/ \E c \in Clients : StoreError(c)

(***************************************************************************)
(* add_raw_files, routes.py 50-89                                          *)
(***************************************************************************)
Paths == {"a.fastq"}
FileMetadata == [metadata_key : {"sample_id"}, metadata_value : {"7"}]
MetadataLists == UNION {[1..n -> FileMetadata] : n \in 0..MaxMeta}
\* the attributes the handler reads of a raw_file: dataset_id, path, metadata
RawFileCreate == [dataset_id : Datasets, path : Paths, metadata : MetadataLists]
RawFileLists == UNION {[1..n -> RawFileCreate] : n \in 0..MaxFiles}

NoRawTx == [files |-> {}, meta |-> {}]
RawEnded(pcv) == pcv \in {"idle", "returned", "http_500"}

\* where the outer loop (line 60) goes with index i of list fs
AtFile(fs, i) == IF i <= Len(fs) THEN "insert_file" ELSE "commit"

RawOff ==
    /\ raw_files = {}
    /\ raw_files_metadata = {}
    /\ rf_next_id = 1
    /\ rfm_next_id = 1
    /\ r_files = [c \in Clients |-> <<>>]
    /\ r_i = [c \in Clients |-> 1]
    /\ r_j = [c \in Clients |-> 1]
    /\ raw_file_id = [c \in Clients |-> None]
    /\ r_tx = [c \in Clients |-> NoRawTx]
    /\ r_conn = [c \in Clients |-> "none"]
    /\ r_pc = [c \in Clients |-> "idle"]
    /\ r_req = [c \in Clients |-> 0]
    /\ r_log = <<>>

InitRaw == RawOff

\* lines 55-60: a request arrives, the handler connects and enters the loop
AddBegin(c) ==
    /\ RawEnded(r_pc[c])
    /\ Len(r_log) < MaxRawRequests
    /\ \E fs \in RawFileLists :
          /\ r_files' = [r_files EXCEPT ![c] = fs]
          /\ r_pc' = [r_pc EXCEPT ![c] = AtFile(fs, 1)]
          /\ r_log' = Append(r_log, [files |-> fs, outcome |-> "running"])
    /\ r_req' = [r_req EXCEPT ![c] = Len(r_log) + 1]
    /\ r_i' = [r_i EXCEPT ![c] = 1]
    /\ r_j' = [r_j EXCEPT ![c] = 1]
    /\ raw_file_id' = [raw_file_id EXCEPT ![c] = None]
    /\ r_tx' = [r_tx EXCEPT ![c] = NoRawTx]
    /\ r_conn' = [r_conn EXCEPT ![c] = "open"]
    /\ UNCHANGED <<raw_files, raw_files_metadata, rf_next_id, rfm_next_id,
                   asm_vars, q_vars, u_vars, g_vars>>

\* the inserts of a connection reach the tables at once only under autocommit
RawStatement(c, tx) ==
    IF autocommit
    THEN /\ raw_files' = raw_files \cup tx.files
         /\ raw_files_metadata' = raw_files_metadata \cup tx.meta
         /\ r_tx' = [r_tx EXCEPT ![c] = NoRawTx]
    ELSE /\ r_tx' = [r_tx EXCEPT ![c] = tx]
         /\ UNCHANGED <<raw_files, raw_files_metadata>>

\* lines 62-74: INSERT INTO raw_files ... RETURNING id; the rows carry the
\* request number and the list index of the file they were written for
InsertFile(c) ==
    /\ r_pc[c] = "insert_file"
    /\ LET f == r_files[c][r_i[c]]
           row == [id |-> rf_next_id, dataset_id |-> f.dataset_id, path |-> f.path,
                   req |-> r_req[c], idx |-> r_i[c]]
       IN /\ RawStatement(c, [r_tx[c] EXCEPT !.files = @ \cup {row}])
          /\ IF f.metadata /= <<>>
             THEN /\ r_pc' = [r_pc EXCEPT ![c] = "insert_metadata"]
                  /\ UNCHANGED r_i
             ELSE /\ r_pc' = [r_pc EXCEPT ![c] = AtFile(r_files[c], r_i[c] + 1)]
                  /\ r_i' = [r_i EXCEPT ![c] = @ + 1]
    /\ raw_file_id' = [raw_file_id EXCEPT ![c] = rf_next_id]
    /\ rf_next_id' = rf_next_id + 1
    /\ r_j' = [r_j EXCEPT ![c] = 1]
    /\ UNCHANGED <<rfm_next_id, r_files, r_conn, r_req, r_log, asm_vars, q_vars, u_vars, g_vars>>

\* lines 75-82: INSERT INTO raw_files_metadata for one metadata of the file
InsertMetadata(c) ==
    /\ r_pc[c] = "insert_metadata"
    /\ LET f == r_files[c][r_i[c]]
           md == f.metadata[r_j[c]]
           row == [id |-> rfm_next_id, raw_file_id |-> raw_file_id[c],
                   metadata_key |-> md.metadata_key,
                   metadata_value |-> md.metadata_value, req |-> r_req[c]]
       IN /\ RawStatement(c, [r_tx[c] EXCEPT !.meta = @ \cup {row}])
          /\ IF r_j[c] < Len(f.metadata)
             THEN /\ r_j' = [r_j EXCEPT ![c] = @ + 1]
                  /\ UNCHANGED <<r_i, r_pc>>
             ELSE /\ r_j' = [r_j EXCEPT ![c] = 1]
                  /\ r_i' = [r_i EXCEPT ![c] = @ + 1]
                  /\ r_pc' = [r_pc EXCEPT ![c] = AtFile(r_files[c], r_i[c] + 1)]
    /\ rfm_next_id' = rfm_next_id + 1
    /\ UNCHANGED <<rf_next_id, r_files, raw_file_id, r_conn, r_req, r_log,
                   asm_vars, q_vars, u_vars, g_vars>>

\* lines 84-86: conn.commit(); conn.close(); return
AddCommit(c) ==
    /\ r_pc[c] = "commit"
    /\ raw_files' = raw_files \cup r_tx[c].files
    /\ raw_files_metadata' = raw_files_metadata \cup r_tx[c].meta
    /\ r_tx' = [r_tx EXCEPT ![c] = NoRawTx]
    /\ r_conn' = [r_conn EXCEPT ![c] = "closed"]
    /\ r_pc' = [r_pc EXCEPT ![c] = "returned"]
    /\ r_log' = [r_log EXCEPT ![r_req[c]].outcome = "committed"]
    /\ r_files' = [r_files EXCEPT ![c] = <<>>]
    /\ r_i' = [r_i EXCEPT ![c] = 1]
    /\ r_j' = [r_j EXCEPT ![c] = 1]
    /\ raw_file_id' = [raw_file_id EXCEPT ![c] = None]
    /\ UNCHANGED <<rf_next_id, rfm_next_id, r_req, asm_vars, q_vars, u_vars, g_vars>>

\* lines 88-89: an INSERT or the commit raises psycopg2.Error; the handler
\* answers 500 without commit or close, and the uncommitted inserts are
\* rolled back when the connection is dropped
AddStoreError(c) ==
    /\ r_pc[c] \in {"insert_file", "insert_metadata", "commit"}
    /\ r_tx' = [r_tx EXCEPT ![c] = NoRawTx]
    /\ r_pc' = [r_pc EXCEPT ![c] = "http_500"]
    /\ r_log' = [r_log EXCEPT ![r_req[c]].outcome = "failed"]
    /\ r_files' = [r_files EXCEPT ![c] = <<>>]
    /\ r_i' = [r_i EXCEPT ![c] = 1]
    /\ r_j' = [r_j EXCEPT ![c] = 1]
    /\ raw_file_id' = [raw_file_id EXCEPT ![c] = None]
    /\ UNCHANGED <<raw_files, raw_files_metadata, rf_next_id, rfm_next_id,
                   r_conn, r_req, asm_vars, q_vars, u_vars, g_vars>>

NextRaw ==
    \/ \E c \in Clients : AddBegin(c)
    \/ \E c \in Clients : InsertFile(c)
    \/ \E c \in Clients : InsertMetadata(c)
    \/ \E c \in Clients : AddCommit(c)
    \/ \E c \in Clients : AddStoreError(c)

(***************************************************************************)
(* get_dataset_with_metadata, routes.py 389-435                            *)
(***************************************************************************)
Projects == 1..MaxProject
\* the dataset ids a request may name; those above MaxDataset have no row
RequestedIds == 1..MaxId

\* tables datasets (id is the primary key) and datasets_metadata as the
\* handler may find them
DatasetRows == [id : Datasets, project_id : Projects, name : {"ds"}]
DatasetTables == {t \in SUBSET DatasetRows : \A a, b \in t : a.id = b.id => a = b}
StoredRow(d, k) ==
    [id |-> 2 * (d - 1) + (IF k = SizeKey THEN 1 ELSE 2),
     dataset_id |-> d, key |-> k, value |-> "v"]
MetadataTables == {{StoredRow(p[1], p[2]) : p \in S} : S \in SUBSET (Datasets \X Keys)}

NoRow == [isNone |-> TRUE]
NoResponse == [status |-> 0]

\* the exceptions the try block (lines 394-432) can raise
NoException == [class |-> "none"]
HTTPException(status_code, detail) ==
    [class |-> "HTTPException", status_code |-> status_code, detail |-> detail]
Psycopg2Error == [class |-> "psycopg2.Error"]

\* `except Error as e` (line 434): Error is psycopg2.Error, and
\* fastapi.HTTPException is not one of its subclasses
CaughtByExceptException(exc) == TRUE
CaughtByExceptError(exc) == exc.class = "psycopg2.Error"

\* the response to an exception raised in the try block: line 435 when the
\* except clause catches it, else the exception reaches FastAPI, which
\* answers an HTTPException with its own status code
ResponseTo(exc) ==
    IF CaughtByExceptError(exc)
    THEN [status |-> 500, body |-> "Database error"]
    ELSE [status |-> exc.status_code, body |-> exc.detail]

\* cursor.fetchall() of a query without ORDER BY: the rows in any order
Orderings(S) ==
    {s \in [1..Cardinality(S) -> S] : \A i, j \in 1..Cardinality(S) : i /= j => s[i] /= s[j]}

\* SELECT id, project_id, name FROM datasets WHERE id = %s AND project_id = %s
MatchingDatasets(table, d, p) == {r \in table : r.id = d /\ r.project_id = p}
\* SELECT id, dataset_id, key, value FROM datasets_metadata WHERE dataset_id = %s
MetadataOfDataset(table, d) == {r \in table : r.dataset_id = d}

DatasetOff ==
    /\ datasets = {}
    /\ g_dataset_id = None
    /\ g_project_id = None
    /\ dataset_row = NoRow
    /\ g_conn = "none"
    /\ g_raised = NoException
    /\ g_response = NoResponse
    /\ g_pc = "off"

InitDataset ==
    /\ datasets \in DatasetTables
    /\ g_dataset_id = None
    /\ g_project_id = None
    /\ dataset_row = NoRow
    /\ g_conn = "none"
    /\ g_raised = NoException
    /\ g_response = NoResponse
    /\ g_pc = "idle"

\* line 390: a request arrives with its two parameters
GetBegin ==
    /\ g_pc \in {"idle", "done"}
    /\ g_dataset_id' \in RequestedIds
    /\ g_project_id' \in Projects
    /\ dataset_row' = NoRow
    /\ g_conn' = "none"
    /\ g_raised' = NoException
    /\ g_response' = NoResponse
    /\ g_pc' = "connect"
    /\ UNCHANGED <<datasets, asm_vars, q_vars, u_vars, r_vars>>

\* lines 395-396: conn = get_connection(); cursor = conn.cursor()
GetConnect ==
    /\ g_pc = "connect"
    /\ g_conn' = "open"
    /\ g_pc' = "select_dataset"
    /\ UNCHANGED <<datasets, g_dataset_id, g_project_id, dataset_row, g_raised,
                   g_response, asm_vars, q_vars, u_vars, r_vars>>

\* lines 399-409: the dataset lookup; no row raises HTTPException(404)
\* inside the try block, with the connection left as it is
GetSelectDataset ==
    /\ g_pc = "select_dataset"
    /\ LET found == MatchingDatasets(datasets, g_dataset_id, g_project_id)
       IN IF found = {}
          THEN /\ g_raised' = HTTPException(404, "Dataset not found")
               /\ g_response' = ResponseTo(HTTPException(404, "Dataset not found"))
               /\ g_pc' = "done"
               /\ UNCHANGED dataset_row
          ELSE /\ \E r \in found :
                     dataset_row' = [isNone |-> FALSE, id |-> r.id,
                                     project_id |-> r.project_id, name |-> r.name]
               /\ g_pc' = "select_metadata"
               /\ UNCHANGED <<g_raised, g_response>>
    /\ UNCHANGED <<datasets, g_dataset_id, g_project_id, g_conn,
                   asm_vars, q_vars, u_vars, r_vars>>

\* lines 412-432: the metadata query, conn.close() and the returned dataset
GetSelectMetadata ==
    /\ g_pc = "select_metadata"
    /\ \E metadata_rows \in Orderings(MetadataOfDataset(datasets_metadata, g_dataset_id)) :
          g_response' =
              [status |-> 200,
               body |-> [id |-> dataset_row.id,
                         project_id |-> dataset_row.project_id,
                         name |-> dataset_row.name,
                         metadata |-> metadata_rows]]
    /\ g_conn' = "closed"
    /\ g_pc' = "done"
    /\ UNCHANGED <<datasets, g_dataset_id, g_project_id, dataset_row, g_raised,
                   asm_vars, q_vars, u_vars, r_vars>>

\* lines 434-435: get_connection or a statement raises psycopg2.Error; the
\* handler answers 500 and does not close the connection it may hold
GetStoreError ==
    /\ g_pc \in {"connect", "select_dataset", "select_metadata"}
    /\ g_raised' = Psycopg2Error
    /\ g_response' = ResponseTo(Psycopg2Error)
    /\ g_pc' = "done"
    /\ UNCHANGED <<datasets, g_dataset_id, g_project_id, dataset_row, g_conn,
                   asm_vars, q_vars, u_vars, r_vars>>

NextDataset ==
    \/ GetBegin
    \/ GetConnect
    \/ GetSelectDataset
    \/ GetSelectMetadata
    \/ GetStoreError

\* update_metadata at rest over a datasets_metadata table that holds rows
UpsertStored ==
    /\ datasets_metadata \in MetadataTables
    /\ dm_next_id = 2 * MaxDataset + 1
    /\ update = [c \in Clients |-> NoUpdate]
    /\ record = [c \in Clients |-> None]
    /\ u_tx = [c \in Clients |-> NoTx]
    /\ u_conn = [c \in Clients |-> "none"]
    /\ u_pc = [c \in Clients |-> "idle"]
    /\ u_reqs = 0
    /\ u_limit = 0
    /\ u_observe = FALSE
    /\ isolated = [c \in Clients |-> FALSE]
    /\ serial = <<>>

InitAsm ==
    /\ rows \in {s \in RowSeqs : SortedByParent(s)}
    /\ row_i = 1
    /\ current_patient = NoPatient
    /\ patients = <<>>
    /\ asm_pc = "loop"

AsmOff ==
    /\ rows = <<>>
    /\ row_i = 1
    /\ current_patient = NoPatient
    /\ patients = <<>>
    /\ asm_pc = "off"

\* one iteration of `for row in rows:` (lines 136-158)
AsmRow ==
    /\ asm_pc = "loop"
    /\ row_i <= Len(rows)
    /\ LET row == rows[row_i]
           fresh == StartsNewPatient(current_patient, row)
           cur == IF fresh THEN NewPatient(row) ELSE current_patient
       IN /\ patients' = IF fresh THEN Seal(current_patient, patients) ELSE patients
          /\ current_patient' = AppendMetadata(cur, row)
    /\ row_i' = row_i + 1
    /\ UNCHANGED <<rows, asm_pc, q_vars, u_vars, r_vars, g_vars>>

\* after the loop (lines 160-161)
AsmFinish ==
    /\ asm_pc = "loop"
    /\ row_i > Len(rows)
    /\ patients' = Seal(current_patient, patients)
    /\ asm_pc' = "done"
    /\ UNCHANGED <<rows, row_i, current_patient, q_vars, u_vars, r_vars, g_vars>>

NextAsm == AsmRow \/ AsmFinish

InitSpecAsm == InitAsm /\ QueryOff /\ UpsertOff /\ RawOff /\ DatasetOff

SpecAsm == InitSpecAsm /\ [][NextAsm]_vars

(***************************************************************************)
(* Properties of the tree assembler                                        *)
(***************************************************************************)
\* the distinct parent ids of s, in the order they first appear
RECURSIVE FirstSeenIds(_)
FirstSeenIds(s) ==
    IF s = <<>> THEN <<>>
    ELSE LET front == FirstSeenIds(SubSeq(s, 1, Len(s) - 1))
             p == s[Len(s)].pid
         IN IF \E j \in 1..(Len(s) - 1) : s[j].pid = p THEN front ELSE Append(front, p)

IdsOf(out) == [k \in 1..Len(out) |-> out[k].id]
ParentIdsIn(s) == {s[i].pid : i \in 1..Len(s)}
RowsOf(p) == {i \in 1..Len(rows) : rows[i].pid = p}

\* C5: for an input sorted by parent id with N distinct parent ids the loop
\* outputs exactly N parent objects, one per distinct id, in first-seen
\* order; the empty input gives the empty output.
C5_OnePerParentInOrder ==
    asm_pc = "done" =>
        /\ Len(patients) = Cardinality(ParentIdsIn(rows))
        /\ IdsOf(patients) = FirstSeenIds(rows)
        /\ (rows = <<>> => patients = <<>>)

C5_Witness ==
    /\ asm_pc = "done"
    /\ Len(rows) = MaxRows
    /\ Cardinality(ParentIdsIn(rows)) = 2
    /\ Len(patients) = 2

\* rows of parent p carrying child id c that open a run: the previous row of
\* the same parent carries another child id (or there is none)
RunStarts(p, c) ==
    {i \in RowsOf(p) : rows[i].cid = c
                        /\ (i = 1 \/ rows[i - 1].pid /= p \/ rows[i - 1].cid /= c)}
RowsWithChild(p, c) == {i \in RowsOf(p) : rows[i].cid = c}
EntriesWithId(pat, c) == {m \in 1..Len(pat.metadata) : pat.metadata[m].id = c}

RECURSIVE ChildRows(_, _)
ChildRows(s, p) ==
    IF s = <<>> THEN <<>>
    ELSE LET front == ChildRows(SubSeq(s, 1, Len(s) - 1), p)
             r == s[Len(s)]
         IN IF r.pid = p /\ r.cid /= None /\ r.cid /= 0
            THEN Append(front, [id |-> r.cid, patient_id |-> r.pid,
                                key |-> r.key, value |-> r.value])
            ELSE front

C7_ChildlessParentKept ==
    asm_pc = "done" =>
        \A p \in 1..MaxParent :
            (Cardinality(RowsOf(p)) = 1 /\ \A i \in RowsOf(p) : rows[i].cid = None)
            => /\ Cardinality({k \in 1..Len(patients) : patients[k].id = p}) = 1
               /\ \A k \in 1..Len(patients) :
                     patients[k].id = p => patients[k].metadata = <<>>

C7_Witness ==
    /\ asm_pc = "done"
    /\ Len(rows) >= 2
    /\ \E p \in 1..MaxParent :
          /\ Cardinality(RowsOf(p)) = 1
          /\ \A i \in RowsOf(p) : rows[i].cid = None
          /\ \E k \in 1..Len(patients) : patients[k].id = p /\ patients[k].metadata = <<>>

ScenarioRows ==
    << Row(1, 101, "k1", "v1"), Row(1, 101, "k2", "v2"),
       Row(1, None, NoneStr, NoneStr), Row(2, 202, "k1", "v1") >>

\* C8: the four rows (1,A,101,k1,v1), (1,A,101,k2,v2), (1,A,null,null,null),
\* (2,B,202,k1,v1) assemble to parent 1 with exactly two metadata entries
\* followed by parent 2 with exactly one.
C8_Scenario ==
    (asm_pc = "done" /\ rows = ScenarioRows) =>
        patients =
            << [isNone |-> FALSE, id |-> 1, ext_patient_id |-> "A", metadata |->
                  << [id |-> 101, patient_id |-> 1, key |-> "k1", value |-> "v1"],
                     [id |-> 101, patient_id |-> 1, key |-> "k2", value |-> "v2"] >>],
               [isNone |-> FALSE, id |-> 2, ext_patient_id |-> "B", metadata |->
                  << [id |-> 202, patient_id |-> 2, key |-> "k1", value |-> "v1"] >>] >>

C8_Witness ==
    /\ asm_pc = "done"
    /\ rows = ScenarioRows
    /\ Len(patients) = 2
    /\ Len(patients[1].metadata) = 2

InitSpecQuery == InitQuery /\ AsmOff /\ UpsertOff /\ RawOff /\ DatasetOff

SpecQuery == InitSpecQuery /\ [][NextQuery]_vars

(***************************************************************************)
(* Properties of the filter composition                                    *)
(***************************************************************************)
Clauses(q) == {q[i] : i \in 1..Len(q)}
Placeholders(q) == Cardinality({i \in 1..Len(q) : q[i] \in PlaceholderClauses})
DatasetsExecuted == q_fn = "get_datasets" /\ q_pc = "executed"

\* C9 (as claimed): get_datasets with no filter executes the base query with
\* no WHERE clause and an empty parameter list; with both filters the query
\* holds both conditions joined by AND and the parameters are
\* [project_id, dataset_id]; placeholders and parameters agree in number and
\* an absent filter adds no condition.
C9_NoWhereWithoutFilters ==
    DatasetsExecuted =>
        /\ (project_id = None /\ dataset_id = None)
              => ("WHERE" \notin Clauses(query) /\ params = <<>>)
        /\ (project_id /= None /\ dataset_id /= None)
              => (/\ SubSeq(query, Len(query) - 3, Len(query))
                        = <<"AND", "project_id = %s", "AND", "id = %s">>
                  /\ params = <<project_id, dataset_id>>)
        /\ Placeholders(query) = Len(params)
        /\ (project_id = None => "project_id = %s" \notin Clauses(query))
        /\ (dataset_id = None => "id = %s" \notin Clauses(query))

\* C9 (amended): get_datasets with no filter executes the base query, whose
\* WHERE clause holds only the constant condition 1=1 and no placeholder,
\* with an empty parameter list; with both filters the base query is followed
\* by AND project_id = %s AND id = %s and the parameters are
\* [project_id, dataset_id]; in every case placeholders and parameters agree
\* in number and an absent filter adds no condition.
C9_FilterComposition ==
    DatasetsExecuted =>
        /\ (project_id = None /\ dataset_id = None)
              => (query = DatasetsBase /\ Placeholders(query) = 0 /\ params = <<>>)
        /\ (project_id /= None /\ dataset_id /= None)
              => (/\ query = DatasetsBase \o <<"AND", "project_id = %s", "AND", "id = %s">>
                  /\ params = <<project_id, dataset_id>>)
        /\ Placeholders(query) = Len(params)
        /\ (project_id = None => "project_id = %s" \notin Clauses(query))
        /\ (dataset_id = None => "id = %s" \notin Clauses(query))

C9_Witness ==
    /\ DatasetsExecuted
    /\ project_id = 0
    /\ dataset_id = MaxId
    /\ params = <<0, MaxId>>

InitSpecUpsert ==
    StartUpsert(MaxRequests, FALSE) /\ AsmOff /\ QueryOff /\ RawOff /\ DatasetOff

SpecUpsert == InitSpecUpsert /\ [][NextUpsert]_vars

InitSpecSerial ==
    StartUpsert(SerialRequests, TRUE) /\ AsmOff /\ QueryOff /\ RawOff /\ DatasetOff

\* the same clients sending enough requests for two of them to race and
\* two more to follow one after the other
SpecSerial == InitSpecSerial /\ [][NextUpsert]_vars

(***************************************************************************)
(* Properties of update_metadata                                           *)
(***************************************************************************)
\* the rows of a table that belong to dataset d and carry key k
RowsOfPair(table, d, k) == {r \in table : r.dataset_id = d /\ r.key = k}

SerialPair(v1, v2) ==
    /\ Len(serial) = 2
    /\ serial[1].dataset_id = serial[2].dataset_id
    /\ TruthyStr(v1) /\ TruthyStr(v2)

OneRowWithValue(d, k, v) ==
    \E r \in datasets_metadata : RowsOfPair(datasets_metadata, d, k) = {r} /\ r.value = v

WroteKey(c, k) ==
    IF k = SizeKey
    THEN u_pc[c] = "write_size" /\ u_pc'[c] \in {"select_last", "commit"}
    ELSE u_pc[c] = "write_last" /\ u_pc'[c] = "commit"
Supplied(u, k) == IF k = SizeKey THEN u.raw_file_size ELSE u.last_size_update
Committed(c) == u_pc[c] = "commit" /\ u_pc'[c] = "returned"
Touched(tx, table) ==
    {<<r.dataset_id, r.key>> : r \in tx.ins}
    \cup {<<r.dataset_id, r.key>> : r \in {x \in table : \E w \in tx.upd : w[1] = x.id}}

C3_Step ==
    \A c \in Clients :
        /\ \A k \in Keys :
              (WroteKey(c, k) /\ RowsOfPair(View(c), update[c].dataset_id, k) = {})
              => \E r \in View(c)' :
                    /\ r \notin View(c)
                    /\ \A old \in View(c) : old.id /= r.id
                    /\ View(c)' = View(c) \cup {r}
                    /\ r.dataset_id = update[c].dataset_id
                    /\ r.key = k
                    /\ r.value = Supplied(update[c], k)
                    /\ RowsOfPair(View(c)', update[c].dataset_id, k) = {r}
        /\ Committed(c)
              => /\ datasets_metadata' = View(c)
                 /\ \A d \in Datasets : \A k \in Keys :
                       <<d, k>> \notin Touched(u_tx[c], datasets_metadata)
                       => RowsOfPair(datasets_metadata', d, k)
                              = RowsOfPair(datasets_metadata, d, k)

EndsWith(c, u) ==
    \/ /\ u_reqs' = u_reqs + 1
       /\ u_pc'[c] = "attribute_error"
       /\ u = update'[c]
    \/ /\ Committed(c)
       /\ u = update[c]

\* C4: a size_update request built from the schema MetadataUpdate
\* (dataset_id, file_size, last_size_update) that supplies a file size and a
\* last_size_update leaves, when it completes, the row
\* (d, raw_file_extension_size_of_all_files) holding the file size and the
\* row (d, last_size_update) holding the timestamp.
C4_DeclaredRequestStoresBoth ==
    [][\A c \in Clients : \A u \in MetadataUpdate :
          (EndsWith(c, u) /\ TruthyStr(u.file_size) /\ TruthyStr(u.last_size_update))
          => /\ \E r \in RowsOfPair(datasets_metadata', u.dataset_id, SizeKey) :
                   r.value = u.file_size
             /\ \E r \in RowsOfPair(datasets_metadata', u.dataset_id, LastKey) :
                   r.value = u.last_size_update]_vars

InitSpecRaw == InitRaw /\ AsmOff /\ QueryOff /\ UpsertOff /\ DatasetOff

SpecRaw == InitSpecRaw /\ [][NextRaw]_vars

(***************************************************************************)
(* Properties of add_raw_files                                             *)
(***************************************************************************)
FilesOfRequest(q) == {r \in raw_files : r.req = q}
MetadataOfRequest(q) == {r \in raw_files_metadata : r.req = q}

\* every file of the request has its row, with as many metadata rows as the
\* file came with, and the request has no other committed row
AllCommitted(q) ==
    LET fs == r_log[q].files
    IN /\ Cardinality(FilesOfRequest(q)) = Len(fs)
       /\ \A i \in 1..Len(fs) :
             \E r \in FilesOfRequest(q) :
                /\ r.idx = i
                /\ r.dataset_id = fs[i].dataset_id
                /\ r.path = fs[i].path
                /\ Cardinality({m \in MetadataOfRequest(q) : m.raw_file_id = r.id})
                       = Len(fs[i].metadata)
       /\ \A m \in MetadataOfRequest(q) : \E r \in FilesOfRequest(q) : m.raw_file_id = r.id

NoneCommitted(q) == FilesOfRequest(q) = {} /\ MetadataOfRequest(q) = {}

\* C10: add_raw_files is all-or-nothing: the rows of a request whose insert
\* failed are never visible as committed, the rows of a running request are
\* not visible either, and a request without failure has all its rows
\* committed together by its single commit.
C10_AllOrNothing ==
    \A q \in 1..Len(r_log) :
        IF r_log[q].outcome = "committed" THEN AllCommitted(q) ELSE NoneCommitted(q)

C10_Witness ==
    \E q1, q2 \in 1..Len(r_log) :
        /\ r_log[q1].outcome = "failed"
        /\ r_log[q2].outcome = "committed"
        /\ Len(r_log[q2].files) = MaxFiles
        /\ MetadataOfRequest(q2) /= {}
        /\ rf_next_id > Cardinality(raw_files) + 1
        /\ NoneCommitted(q1)

InitSpecDataset == InitDataset /\ AsmOff /\ QueryOff /\ UpsertStored /\ RawOff

SpecDataset == InitSpecDataset /\ [][NextDataset]_vars

(***************************************************************************)
(* Properties of get_dataset_with_metadata                                 *)
(***************************************************************************)
\* the datasets table holds a row for the requested id and project
RowExists == \E r \in datasets : r.id = g_dataset_id /\ r.project_id = g_project_id

\* C11: get_dataset_with_metadata answers a dataset id that has no row for
\* the given project_id with status 404 and a store failure with status
\* 500: a raised not-found is never answered 500, a store failure is never
\* answered 404, a 404 is answered only when the lookup found no row, and a
\* 200 only when it found one.
C11_NotFoundDistinctFromStoreError ==
    g_pc = "done" =>
        /\ g_raised.class = "HTTPException" => g_response.status = 404
        /\ g_raised.class = "psycopg2.Error" => g_response.status = 500
        /\ g_response.status = 404 => (~RowExists /\ g_raised.class = "HTTPException")
        /\ g_response.status = 500 => g_raised.class = "psycopg2.Error"
        /\ g_response.status = 200 => (RowExists /\ g_raised = NoException)
        /\ g_response.status \in {200, 404, 500}

\* a request for an id that exists under another project was answered 404
C11_Witness ==
    /\ g_pc = "done"
    /\ g_response.status = 404
    /\ g_raised.class = "HTTPException"
    /\ \E r \in datasets : r.id = g_dataset_id /\ r.project_id /= g_project_id

(***************************************************************************)
(* Connections of the three handlers                                       *)
(***************************************************************************)
\* C12: no request ends with its connection still open: a request of
\* get_dataset_with_metadata, update_metadata or add_raw_files that has
\* completed (normal return, 404, 500 or an uncaught exception) has closed
\* the connection it acquired.
C12_ConnectionClosedWhenRequestEnds ==
    /\ g_pc = "done" => g_conn /= "open"
    /\ \A c \in Clients :
          u_pc[c] \in {"returned", "attribute_error", "http_500"} => u_conn[c] /= "open"
    /\ \A c \in Clients :
          r_pc[c] \in {"returned", "http_500"} => r_conn[c] /= "open"

====
